---- MODULE Spec2Model ----
(***************************************************************************)
(* totp-lite: TOTP (RFC 6238) over HMAC-SHA1 / SHA-256 / SHA-512.          *)
(*                                                                         *)
(* totp_custom is modelled statement by statement (src/src/lib.rs          *)
(* 118-129).  TLC's integers are 32-bit, so every u64 of the code (time,   *)
(* counter, binary, 10^digits) and every 32/64-bit hash word is a          *)
(* big-endian sequence of 16-bit limbs with explicit wrap-around.          *)
(***************************************************************************)
EXTENDS Integers, Sequences, FiniteSets, TLC

VARIABLES
    pc,               \* the statement the call is at, or "returned" / "panicked"
    fn,               \* the entry point called: "totp" or "totp_custom"
    overflow_checks,  \* the build: TRUE panics on arithmetic overflow, FALSE wraps
    alg,              \* the type parameter H
    step, digits, secret, time,   \* the arguments of totp_custom
    mac,              \* the Hmac<H> being fed: its key and the message so far
    hash,             \* the digest bytes (line 120)
    offset, binary,   \* lines 123-127
    result,           \* the String returned
    panic             \* the panic message when pc = "panicked"

vars == <<pc, fn, overflow_checks, alg, step, digits, secret, time, mac, hash,
          offset, binary, result, panic>>

\* ------------------------------------------------------------------------
\* Fixed-width unsigned integers as big-endian sequences of 16-bit limbs
\* ------------------------------------------------------------------------

Limb == 2^16

\* a function on 1..n as an evaluated tuple (TLC otherwise keeps [i \in S |-> e]
\* unevaluated and recomputes e on every application)
Tup(f) == f \o <<>>

Zeros(n) == Tup([i \in 1..n |-> 0])

\* Loops are operators over a range lo..hi of steps, with the loop state as
\* first argument.  The range is halved, so that the evaluation nests
\* logarithmically deep in the number of steps.  TLC evaluates an operator's
\* argument where it is first used, however deep inside the operator that is:
\* comparing an argument with itself (v # v) evaluates it on entry.
Mid(lo, hi) == (lo + hi) \div 2

RECURSIVE BitAndRec(_, _)
BitAndRec(a, b) ==
    IF a = 0 \/ b = 0 THEN 0
    ELSE (a % 2) * (b % 2) + 2 * BitAndRec(a \div 2, b \div 2)

\* a & b on bytes, tabulated once (entry [a + 1][b + 1])
AndTab == Tup([a \in 1..256 |-> Tup([b \in 1..256 |-> BitAndRec(a - 1, b - 1)])])

And8(a, b) == AndTab[a + 1][b + 1]

\* a & b, a | b, a ^ b, !a on 16-bit limbs
And16(a, b) == And8(a \div 256, b \div 256) * 256 + And8(a % 256, b % 256)
Or16(a, b) == a + b - And16(a, b)
Xor16(a, b) == a + b - 2 * And16(a, b)
Not16(a) == (Limb - 1) - a

\* the same on whole words
WAnd(x, y) == Tup([i \in DOMAIN x |-> And16(x[i], y[i])])
WOr(x, y) == Tup([i \in DOMAIN x |-> Or16(x[i], y[i])])
WXor(x, y) == Tup([i \in DOMAIN x |-> Xor16(x[i], y[i])])
WNot(x) == Tup([i \in DOMAIN x |-> Not16(x[i])])

\* wrapping addition (mod 2^(16 * Len(x))): limbs i .. 1 with carry c into limb i
RECURSIVE AddFrom(_, _, _, _)
AddFrom(x, y, i, c) ==
    IF i = 0 THEN <<>>
    ELSE LET t == x[i] + y[i] + c
         IN  Append(AddFrom(x, y, i - 1, t \div Limb), t % Limb)

WAdd(x, y) == AddFrom(x, y, Len(x), 0)

\* limb i of x, zero outside the word
LimbAt(x, i) == IF i \in DOMAIN x THEN x[i] ELSE 0

\* x >> k and x << k (logical), 0 <= k < 16 * Len(x)
WShr(x, k) ==
    LET q == k \div 16
        r == k % 16
    IN  Tup([i \in DOMAIN x |->
            LimbAt(x, i - q) \div 2^r + (LimbAt(x, i - q - 1) % 2^r) * 2^(16 - r)])

WShl(x, k) ==
    LET q == k \div 16
        r == k % 16
    IN  Tup([i \in DOMAIN x |->
            (LimbAt(x, i + q) % 2^(16 - r)) * 2^r + LimbAt(x, i + q + 1) \div 2^(16 - r)])

\* rotations, 0 <= k < 16 * Len(x)
WRotr(x, k) ==
    LET n == Len(x)
        q == k \div 16
        r == k % 16
    IN  Tup([i \in DOMAIN x |->
            x[((i - 1 - q + 4 * n) % n) + 1] \div 2^r
            + (x[((i - 2 - q + 4 * n) % n) + 1] % 2^r) * 2^(16 - r)])

WRotl(x, k) == WRotr(x, (16 * Len(x) - k) % (16 * Len(x)))

\* x < y, most significant limb first
RECURSIVE WLtFrom(_, _, _)
WLtFrom(x, y, i) ==
    IF i > Len(x) THEN FALSE
    ELSE IF x[i] # y[i] THEN x[i] < y[i]
    ELSE WLtFrom(x, y, i + 1)

WLt(x, y) == WLtFrom(x, y, 1)

WIsZero(x) == \A i \in DOMAIN x : x[i] = 0

\* the word of n limbs holding the natural k < 2^31
WOfNat(k, n) ==
    Tup([i \in 1..n |-> IF i = n THEN k % Limb
                        ELSE IF i = n - 1 THEN k \div Limb ELSE 0])

\* wrapping subtraction: x + !y + 1
WSub(x, y) == WAdd(WAdd(x, WNot(y)), WOfNat(1, Len(x)))

\* x * k for 0 <= k < 2^15: the wrapped product and the carry out of the top limb
RECURSIVE MulCarryInto(_, _, _)
MulCarryInto(x, k, i) ==
    IF i = Len(x) THEN 0
    ELSE (x[i + 1] * k + MulCarryInto(x, k, i + 1)) \div Limb

WMulSmall(x, k) ==
    [val |-> Tup([i \in DOMAIN x |-> (x[i] * k + MulCarryInto(x, k, i)) % Limb]),
     carry |-> MulCarryInto(x, k, 0)]

\* x / d and x % d for 0 < d < 2^15 (short division, most significant limb first)
RECURSIVE RemInto(_, _, _)
RemInto(x, d, i) ==
    IF i = 1 THEN 0 ELSE (RemInto(x, d, i - 1) * Limb + x[i - 1]) % d

WDivSmall(x, d) ==
    [quot |-> Tup([i \in DOMAIN x |-> (RemInto(x, d, i) * Limb + x[i]) \div d]),
     rem |-> RemInto(x, d, Len(x) + 1)]

\* bit j of x, bit 0 the least significant
WBit(x, j) == (x[Len(x) - (j \div 16)] \div 2^(j % 16)) % 2

\* one step of binary long division, at bit j of x: the running remainder v.r
\* is one limb wider than x
LongDivStep(v, j, x, y) ==
    LET r1 == WOr(WShl(v.r, 1), WOfNat(WBit(x, j), Len(v.r)))
        ge == ~WLt(r1, <<0>> \o y)
    IN  [q |-> WOr(WShl(v.q, 1), WOfNat(IF ge THEN 1 ELSE 0, Len(x))),
         r |-> IF ge THEN WSub(r1, <<0>> \o y) ELSE r1]

\* the steps at bits 16 * Len(x) - lo down to 16 * Len(x) - hi
RECURSIVE LongDivSteps(_, _, _, _, _)
LongDivSteps(v, x, y, lo, hi) ==
    IF v # v \/ lo > hi THEN v
    ELSE IF lo = hi THEN LongDivStep(v, 16 * Len(x) - lo, x, y)
    ELSE LongDivSteps(LongDivSteps(v, x, y, lo, Mid(lo, hi)), x, y, Mid(lo, hi) + 1, hi)

\* x / y and x % y for any y # 0, from the top bit of x down
LongDivResult(v) == [quot |-> v.q, rem |-> Tail(v.r)]

LongDiv(x, y) ==
    LongDivResult(LongDivSteps([q |-> Zeros(Len(x)), r |-> Zeros(Len(x) + 1)], x, y,
                               1, 16 * Len(x)))

WFitsSmall(y) == (\A i \in 1..(Len(y) - 1) : y[i] = 0) /\ y[Len(y)] < 2^15

\* x < 2^31, so that x is also a number TLC can hold
WFitsNat(x) == (\A i \in 1..(Len(x) - 2) : x[i] = 0) /\ x[Len(x) - 1] < 2^15
WToNat(x) == x[Len(x) - 1] * Limb + x[Len(x)]

WDivRem(x, y) ==
    IF WLt(x, y) THEN [quot |-> Zeros(Len(x)), rem |-> x]
    ELSE IF WFitsNat(x)
    THEN [quot |-> WOfNat(WToNat(x) \div WToNat(y), Len(x)),
          rem |-> WOfNat(WToNat(x) % WToNat(y), Len(x))]
    ELSE IF WFitsSmall(y)
    THEN LET s == WDivSmall(x, y[Len(y)])
         IN  [quot |-> s.quot, rem |-> WOfNat(s.rem, Len(x))]
    ELSE LongDiv(x, y)

\* ------------------------------------------------------------------------
\* Bytes and words
\* ------------------------------------------------------------------------

\* big-endian bytes <-> words of n limbs (2 bytes per limb)
BytesToWord(b, n) == Tup([i \in 1..n |-> b[2 * i - 1] * 256 + b[2 * i]])
WordToBytes(w) ==
    Tup([j \in 1..(2 * Len(w)) |->
            IF j % 2 = 1 THEN w[(j + 1) \div 2] \div 256 ELSE w[j \div 2] % 256])

BytesToWords(b, n) ==
    Tup([i \in 1..(Len(b) \div (2 * n)) |->
            BytesToWord(SubSeq(b, 2 * n * (i - 1) + 1, 2 * n * i), n)])

WordsToBytes(ws) ==
    LET n == IF ws = <<>> THEN 1 ELSE 2 * Len(ws[1])
    IN  Tup([i \in 1..(n * Len(ws)) |->
                WordToBytes(ws[((i - 1) \div n) + 1])[((i - 1) % n) + 1]])

\* Merkle-Damgard padding: 0x80, zeros, then the bit length big-endian in
\* lenBytes bytes (messages here are far shorter than 2^24 bits)
MDPad(m, blockBytes, lenBytes) ==
    LET bits == 8 * Len(m)
        z == (blockBytes - ((Len(m) + 1 + lenBytes) % blockBytes)) % blockBytes
        lenField == [j \in 1..lenBytes |->
                        IF lenBytes - j > 2 THEN 0
                        ELSE (bits \div 256^(lenBytes - j)) % 256]
    IN  m \o <<128>> \o Zeros(z) \o lenField

\* ------------------------------------------------------------------------
\* SHA-1 (FIPS 180-4), the digest behind Sha1
\* ------------------------------------------------------------------------

Sha1H0 == << <<\H6745, \H2301>>, <<\HEFCD, \HAB89>>, <<\H98BA, \HDCFE>>,
             <<\H1032, \H5476>>, <<\HC3D2, \HE1F0>> >>

Sha1K(t) ==
    IF t < 20 THEN <<\H5A82, \H7999>>
    ELSE IF t < 40 THEN <<\H6ED9, \HEBA1>>
    ELSE IF t < 60 THEN <<\H8F1B, \HBCDC>>
    ELSE <<\HCA62, \HC1D6>>

Ch(x, y, z) == WXor(WAnd(x, y), WAnd(WNot(x), z))
Parity(x, y, z) == WXor(WXor(x, y), z)
Maj(x, y, z) == WXor(WXor(WAnd(x, y), WAnd(x, z)), WAnd(y, z))

Sha1F(t, b, c, d) ==
    IF t < 20 THEN Ch(b, c, d)
    ELSE IF t < 40 THEN Parity(b, c, d)
    ELSE IF t < 60 THEN Maj(b, c, d)
    ELSE Parity(b, c, d)

\* message schedule: w holds W[0..t-1] at positions 1..t, and W[t] is added
Sha1SchedStep(w, t) ==
    Append(w, WRotl(WXor(WXor(w[t - 2], w[t - 7]), WXor(w[t - 13], w[t - 15])), 1))

\* W[lo..hi] added
RECURSIVE Sha1SchedSteps(_, _, _)
Sha1SchedSteps(w, lo, hi) ==
    IF w # w \/ lo > hi THEN w
    ELSE IF lo = hi THEN Sha1SchedStep(w, lo)
    ELSE Sha1SchedSteps(Sha1SchedSteps(w, lo, Mid(lo, hi)), Mid(lo, hi) + 1, hi)

Sha1Sched(w) == Sha1SchedSteps(w, 16, 79)

\* round t on the working variables a..e
Sha1Round(v, t, w) ==
    LET temp == WAdd(WAdd(WAdd(WRotl(v.a, 5), Sha1F(t, v.b, v.c, v.d)),
                          WAdd(v.e, Sha1K(t))), w[t + 1])
    IN  [a |-> temp, b |-> v.a, c |-> WRotl(v.b, 30), d |-> v.c, e |-> v.d]

\* rounds lo..hi
RECURSIVE Sha1Rounds(_, _, _, _)
Sha1Rounds(v, w, lo, hi) ==
    IF v # v \/ lo > hi THEN v
    ELSE IF lo = hi THEN Sha1Round(v, lo, w)
    ELSE Sha1Rounds(Sha1Rounds(v, w, lo, Mid(lo, hi)), w, Mid(lo, hi) + 1, hi)

\* the working variables added to the hash value
Sha1Add(h, v) ==
    IF v # v THEN h
    ELSE Tup([i \in 1..5 |-> WAdd(h[i], <<v.a, v.b, v.c, v.d, v.e>>[i])])

\* the 80 rounds on schedule w
Sha1CompressSched(h, w) ==
    IF w # w THEN h
    ELSE Sha1Add(h, Sha1Rounds([a |-> h[1], b |-> h[2], c |-> h[3], d |-> h[4],
                                e |-> h[5]], w, 0, 79))

Sha1Compress(h, block) == Sha1CompressSched(h, Sha1Sched(BytesToWords(block, 2)))

\* the blocks of m, in order, through the compression function
RECURSIVE Sha1Blocks(_, _)
Sha1Blocks(h, m) ==
    IF h # h \/ m = <<>> THEN h
    ELSE Sha1Blocks(Sha1Compress(h, SubSeq(m, 1, 64)), SubSeq(m, 65, Len(m)))

Sha1Digest(m) == WordsToBytes(Sha1Blocks(Sha1H0, MDPad(m, 64, 8)))

\* ------------------------------------------------------------------------
\* SHA-256 and SHA-512 (FIPS 180-4), the digests behind Sha256 and Sha512
\* ------------------------------------------------------------------------

\* initial hash values: the fractional parts of the square roots of the first
\* 8 primes; round constants: of the cube roots of the first 64 / 80 primes
Sha256H0 ==
    << <<\H6A09, \HE667>>, <<\HBB67, \HAE85>>, <<\H3C6E, \HF372>>, <<\HA54F, \HF53A>>,
       <<\H510E, \H527F>>, <<\H9B05, \H688C>>, <<\H1F83, \HD9AB>>, <<\H5BE0, \HCD19>> >>

Sha256K ==
    << <<\H428A, \H2F98>>, <<\H7137, \H4491>>, <<\HB5C0, \HFBCF>>, <<\HE9B5, \HDBA5>>,
       <<\H3956, \HC25B>>, <<\H59F1, \H11F1>>, <<\H923F, \H82A4>>, <<\HAB1C, \H5ED5>>,
       <<\HD807, \HAA98>>, <<\H1283, \H5B01>>, <<\H2431, \H85BE>>, <<\H550C, \H7DC3>>,
       <<\H72BE, \H5D74>>, <<\H80DE, \HB1FE>>, <<\H9BDC, \H06A7>>, <<\HC19B, \HF174>>,
       <<\HE49B, \H69C1>>, <<\HEFBE, \H4786>>, <<\H0FC1, \H9DC6>>, <<\H240C, \HA1CC>>,
       <<\H2DE9, \H2C6F>>, <<\H4A74, \H84AA>>, <<\H5CB0, \HA9DC>>, <<\H76F9, \H88DA>>,
       <<\H983E, \H5152>>, <<\HA831, \HC66D>>, <<\HB003, \H27C8>>, <<\HBF59, \H7FC7>>,
       <<\HC6E0, \H0BF3>>, <<\HD5A7, \H9147>>, <<\H06CA, \H6351>>, <<\H1429, \H2967>>,
       <<\H27B7, \H0A85>>, <<\H2E1B, \H2138>>, <<\H4D2C, \H6DFC>>, <<\H5338, \H0D13>>,
       <<\H650A, \H7354>>, <<\H766A, \H0ABB>>, <<\H81C2, \HC92E>>, <<\H9272, \H2C85>>,
       <<\HA2BF, \HE8A1>>, <<\HA81A, \H664B>>, <<\HC24B, \H8B70>>, <<\HC76C, \H51A3>>,
       <<\HD192, \HE819>>, <<\HD699, \H0624>>, <<\HF40E, \H3585>>, <<\H106A, \HA070>>,
       <<\H19A4, \HC116>>, <<\H1E37, \H6C08>>, <<\H2748, \H774C>>, <<\H34B0, \HBCB5>>,
       <<\H391C, \H0CB3>>, <<\H4ED8, \HAA4A>>, <<\H5B9C, \HCA4F>>, <<\H682E, \H6FF3>>,
       <<\H748F, \H82EE>>, <<\H78A5, \H636F>>, <<\H84C8, \H7814>>, <<\H8CC7, \H0208>>,
       <<\H90BE, \HFFFA>>, <<\HA450, \H6CEB>>, <<\HBEF9, \HA3F7>>, <<\HC671, \H78F2>> >>

Sha512H0 ==
    << <<\H6A09, \HE667, \HF3BC, \HC908>>, <<\HBB67, \HAE85, \H84CA, \HA73B>>,
       <<\H3C6E, \HF372, \HFE94, \HF82B>>, <<\HA54F, \HF53A, \H5F1D, \H36F1>>,
       <<\H510E, \H527F, \HADE6, \H82D1>>, <<\H9B05, \H688C, \H2B3E, \H6C1F>>,
       <<\H1F83, \HD9AB, \HFB41, \HBD6B>>, <<\H5BE0, \HCD19, \H137E, \H2179>> >>

Sha512K ==
    << <<\H428A, \H2F98, \HD728, \HAE22>>, <<\H7137, \H4491, \H23EF, \H65CD>>,
       <<\HB5C0, \HFBCF, \HEC4D, \H3B2F>>, <<\HE9B5, \HDBA5, \H8189, \HDBBC>>,
       <<\H3956, \HC25B, \HF348, \HB538>>, <<\H59F1, \H11F1, \HB605, \HD019>>,
       <<\H923F, \H82A4, \HAF19, \H4F9B>>, <<\HAB1C, \H5ED5, \HDA6D, \H8118>>,
       <<\HD807, \HAA98, \HA303, \H0242>>, <<\H1283, \H5B01, \H4570, \H6FBE>>,
       <<\H2431, \H85BE, \H4EE4, \HB28C>>, <<\H550C, \H7DC3, \HD5FF, \HB4E2>>,
       <<\H72BE, \H5D74, \HF27B, \H896F>>, <<\H80DE, \HB1FE, \H3B16, \H96B1>>,
       <<\H9BDC, \H06A7, \H25C7, \H1235>>, <<\HC19B, \HF174, \HCF69, \H2694>>,
       <<\HE49B, \H69C1, \H9EF1, \H4AD2>>, <<\HEFBE, \H4786, \H384F, \H25E3>>,
       <<\H0FC1, \H9DC6, \H8B8C, \HD5B5>>, <<\H240C, \HA1CC, \H77AC, \H9C65>>,
       <<\H2DE9, \H2C6F, \H592B, \H0275>>, <<\H4A74, \H84AA, \H6EA6, \HE483>>,
       <<\H5CB0, \HA9DC, \HBD41, \HFBD4>>, <<\H76F9, \H88DA, \H8311, \H53B5>>,
       <<\H983E, \H5152, \HEE66, \HDFAB>>, <<\HA831, \HC66D, \H2DB4, \H3210>>,
       <<\HB003, \H27C8, \H98FB, \H213F>>, <<\HBF59, \H7FC7, \HBEEF, \H0EE4>>,
       <<\HC6E0, \H0BF3, \H3DA8, \H8FC2>>, <<\HD5A7, \H9147, \H930A, \HA725>>,
       <<\H06CA, \H6351, \HE003, \H826F>>, <<\H1429, \H2967, \H0A0E, \H6E70>>,
       <<\H27B7, \H0A85, \H46D2, \H2FFC>>, <<\H2E1B, \H2138, \H5C26, \HC926>>,
       <<\H4D2C, \H6DFC, \H5AC4, \H2AED>>, <<\H5338, \H0D13, \H9D95, \HB3DF>>,
       <<\H650A, \H7354, \H8BAF, \H63DE>>, <<\H766A, \H0ABB, \H3C77, \HB2A8>>,
       <<\H81C2, \HC92E, \H47ED, \HAEE6>>, <<\H9272, \H2C85, \H1482, \H353B>>,
       <<\HA2BF, \HE8A1, \H4CF1, \H0364>>, <<\HA81A, \H664B, \HBC42, \H3001>>,
       <<\HC24B, \H8B70, \HD0F8, \H9791>>, <<\HC76C, \H51A3, \H0654, \HBE30>>,
       <<\HD192, \HE819, \HD6EF, \H5218>>, <<\HD699, \H0624, \H5565, \HA910>>,
       <<\HF40E, \H3585, \H5771, \H202A>>, <<\H106A, \HA070, \H32BB, \HD1B8>>,
       <<\H19A4, \HC116, \HB8D2, \HD0C8>>, <<\H1E37, \H6C08, \H5141, \HAB53>>,
       <<\H2748, \H774C, \HDF8E, \HEB99>>, <<\H34B0, \HBCB5, \HE19B, \H48A8>>,
       <<\H391C, \H0CB3, \HC5C9, \H5A63>>, <<\H4ED8, \HAA4A, \HE341, \H8ACB>>,
       <<\H5B9C, \HCA4F, \H7763, \HE373>>, <<\H682E, \H6FF3, \HD6B2, \HB8A3>>,
       <<\H748F, \H82EE, \H5DEF, \HB2FC>>, <<\H78A5, \H636F, \H4317, \H2F60>>,
       <<\H84C8, \H7814, \HA1F0, \HAB72>>, <<\H8CC7, \H0208, \H1A64, \H39EC>>,
       <<\H90BE, \HFFFA, \H2363, \H1E28>>, <<\HA450, \H6CEB, \HDE82, \HBDE9>>,
       <<\HBEF9, \HA3F7, \HB2C6, \H7915>>, <<\HC671, \H78F2, \HE372, \H532B>>,
       <<\HCA27, \H3ECE, \HEA26, \H619C>>, <<\HD186, \HB8C7, \H21C0, \HC207>>,
       <<\HEADA, \H7DD6, \HCDE0, \HEB1E>>, <<\HF57D, \H4F7F, \HEE6E, \HD178>>,
       <<\H06F0, \H67AA, \H7217, \H6FBA>>, <<\H0A63, \H7DC5, \HA2C8, \H98A6>>,
       <<\H113F, \H9804, \HBEF9, \H0DAE>>, <<\H1B71, \H0B35, \H131C, \H471B>>,
       <<\H28DB, \H77F5, \H2304, \H7D84>>, <<\H32CA, \HAB7B, \H40C7, \H2493>>,
       <<\H3C9E, \HBE0A, \H15C9, \HBEBC>>, <<\H431D, \H67C4, \H9C10, \H0D4C>>,
       <<\H4CC5, \HD4BE, \HCB3E, \H42B6>>, <<\H597F, \H299C, \HFC65, \H7E2A>>,
       <<\H5FCB, \H6FAB, \H3AD6, \HFAEC>>, <<\H6C44, \H198C, \H4A47, \H5817>> >>

\* the parameters that tell the two functions apart: word size in limbs, block
\* and length-field size in bytes, rounds, rotation and shift amounts
Sha256Params ==
    [limbs |-> 2, block |-> 64, lenBytes |-> 8, rounds |-> 64,
     H0 |-> Sha256H0, K |-> Sha256K,
     S0 |-> <<2, 13, 22>>, S1 |-> <<6, 11, 25>>,
     s0 |-> <<7, 18, 3>>, s1 |-> <<17, 19, 10>>]

Sha512Params ==
    [limbs |-> 4, block |-> 128, lenBytes |-> 16, rounds |-> 80,
     H0 |-> Sha512H0, K |-> Sha512K,
     S0 |-> <<28, 34, 39>>, S1 |-> <<14, 18, 41>>,
     s0 |-> <<1, 8, 7>>, s1 |-> <<19, 61, 6>>]

BigSigma(x, r) == WXor(WXor(WRotr(x, r[1]), WRotr(x, r[2])), WRotr(x, r[3]))
SmallSigma(x, r) == WXor(WXor(WRotr(x, r[1]), WRotr(x, r[2])), WShr(x, r[3]))

\* message schedule: w holds W[0..t-1] at positions 1..t, and W[t] is added
Sha2SchedStep(P, w, t) ==
    Append(w, WAdd(WAdd(SmallSigma(w[t - 1], P.s1), w[t - 6]),
                   WAdd(SmallSigma(w[t - 14], P.s0), w[t - 15])))

\* W[lo..hi] added
RECURSIVE Sha2SchedSteps(_, _, _, _)
Sha2SchedSteps(P, w, lo, hi) ==
    IF w # w \/ lo > hi THEN w
    ELSE IF lo = hi THEN Sha2SchedStep(P, w, lo)
    ELSE Sha2SchedSteps(P, Sha2SchedSteps(P, w, lo, Mid(lo, hi)), Mid(lo, hi) + 1, hi)

Sha2Sched(P, w) == Sha2SchedSteps(P, w, 16, P.rounds - 1)

\* round t on the working variables a..h
Sha2Shift(v, T1, T2) ==
    [a |-> WAdd(T1, T2), b |-> v.a, c |-> v.b, d |-> v.c,
     e |-> WAdd(v.d, T1), f |-> v.e, g |-> v.f, h |-> v.g]

Sha2Round(P, v, t, w) ==
    Sha2Shift(v,
              WAdd(WAdd(WAdd(v.h, BigSigma(v.e, P.S1)), Ch(v.e, v.f, v.g)),
                   WAdd(P.K[t + 1], w[t + 1])),
              WAdd(BigSigma(v.a, P.S0), Maj(v.a, v.b, v.c)))

\* rounds lo..hi
RECURSIVE Sha2Rounds(_, _, _, _, _)
Sha2Rounds(P, v, w, lo, hi) ==
    IF v # v \/ lo > hi THEN v
    ELSE IF lo = hi THEN Sha2Round(P, v, lo, w)
    ELSE Sha2Rounds(P, Sha2Rounds(P, v, w, lo, Mid(lo, hi)), w, Mid(lo, hi) + 1, hi)

\* the working variables added to the hash value
Sha2Add(h, v) ==
    IF v # v THEN h
    ELSE Tup([i \in 1..8 |-> WAdd(h[i], <<v.a, v.b, v.c, v.d, v.e, v.f, v.g, v.h>>[i])])

\* the rounds on schedule w
Sha2CompressSched(P, h, w) ==
    IF w # w THEN h
    ELSE Sha2Add(h, Sha2Rounds(P, [a |-> h[1], b |-> h[2], c |-> h[3], d |-> h[4],
                                   e |-> h[5], f |-> h[6], g |-> h[7], h |-> h[8]],
                               w, 0, P.rounds - 1))

Sha2Compress(P, h, block) ==
    Sha2CompressSched(P, h, Sha2Sched(P, BytesToWords(block, P.limbs)))

\* the blocks of m, in order, through the compression function
RECURSIVE Sha2Blocks(_, _, _)
Sha2Blocks(P, h, m) ==
    IF h # h \/ m = <<>> THEN h
    ELSE Sha2Blocks(P, Sha2Compress(P, h, SubSeq(m, 1, P.block)),
                    SubSeq(m, P.block + 1, Len(m)))

Sha2Digest(P, m) == WordsToBytes(Sha2Blocks(P, P.H0, MDPad(m, P.block, P.lenBytes)))

\* ------------------------------------------------------------------------
\* HMAC (RFC 2104), as hmac::Hmac<H> computes it
\* ------------------------------------------------------------------------

Algs == {"Sha1", "Sha256", "Sha512"}

BlockSize(H) == IF H = "Sha512" THEN 128 ELSE 64
\* H is generic: any digest fits, such as a 16-byte one ("Md5"), which the
\* crate does not re-export
AnyAlgs == Algs \cup {"Md5"}

OutputSize(H) ==
    CASE H = "Md5" -> 16 [] H = "Sha1" -> 20 [] H = "Sha256" -> 32 [] H = "Sha512" -> 64

Digest(H, m) ==
    IF H = "Sha1" THEN Sha1Digest(m)
    ELSE Sha2Digest(IF H = "Sha256" THEN Sha256Params ELSE Sha512Params, m)

Xor8(a, b) == a + b - 2 * And8(a, b)

\* the key as one block: hashed when longer than a block, then zero-padded.
\* A key of any length, the empty one included, is accepted.
ZeroPad(k, n) == k \o Zeros(n - Len(k))

DerKey(H, key) ==
    ZeroPad(IF Len(key) > BlockSize(H) THEN Digest(H, key) ELSE key, BlockSize(H))

\* the block key k with every byte xored with c: ipad is 0x36, opad 0x5c
KeyPad(k, c) == Tup([i \in 1..Len(k) |-> Xor8(k[i], c)])

\* H((k ^ opad) || inner)
HmacOuter(H, k, inner) ==
    IF inner # inner THEN inner ELSE Digest(H, KeyPad(k, 92) \o inner)

\* H((k ^ opad) || H((k ^ ipad) || m)) for the block key k
HmacKeyed(H, k, m) ==
    IF k # k THEN k ELSE HmacOuter(H, k, Digest(H, KeyPad(k, 54) \o m))

HmacCompute(H, key, m) == HmacKeyed(H, DerKey(H, key), m)

\* ------------------------------------------------------------------------
\* u64 values of the program
\* ------------------------------------------------------------------------

\* the u64 holding k < 2^31
U64(k) == WOfNat(k, 4)

\* the u64 written in decimal digits, most significant first
RECURSIVE U64DecFrom(_, _)
U64DecFrom(acc, ds) ==
    IF acc # acc \/ ds = <<>> THEN acc
    ELSE U64DecFrom(WAdd(WMulSmall(acc, 10).val, U64(Head(ds))), Tail(ds))

U64Dec(ds) == U64DecFrom(U64(0), ds)

\* `x as u8`
AsU8(x) == x[Len(x)] % 256

\* an operation either yields a value or panics
Ok(v) == [panicked |-> FALSE, msg |-> "", val |-> v]
Panic(m) == [panicked |-> TRUE, msg |-> m, val |-> <<>>]

\* x / y and x % y on u64: a zero divisor panics in every build
DivNoCheck(x, y) == Ok(IF WIsZero(y) THEN U64(0) ELSE WDivRem(x, y).quot)

Div(x, y) ==
    IF WIsZero(y) THEN Panic("attempt to divide by zero")
    ELSE Ok(WDivRem(x, y).quot)

RemAsDiv(x, y) ==
    IF WIsZero(y) THEN Panic("attempt to divide by zero")
    ELSE Ok(WDivRem(x, y).quot)

Rem(x, y) ==
    IF WIsZero(y)
    THEN Panic("attempt to calculate the remainder with a divisor of zero")
    ELSE Ok(WDivRem(x, y).rem)

\* base.pow(e) on u64, base < 2^15: the product mod 2^64, and whether the true
\* product exceeds u64 (a panic with overflow checks, a wrap without)
PowStep(p, base) ==
    LET m == WMulSmall(p.val, base)
    IN  [val |-> m.val, overflow |-> p.overflow \/ m.carry # 0]

\* p times base^(hi - lo + 1)
RECURSIVE PowSteps(_, _, _, _)
PowSteps(p, base, lo, hi) ==
    IF p # p \/ lo > hi THEN p
    ELSE IF lo = hi THEN PowStep(p, base)
    ELSE PowSteps(PowSteps(p, base, lo, Mid(lo, hi)), base, Mid(lo, hi) + 1, hi)

Pow(base, e) == PowSteps([val |-> U64(1), overflow |-> FALSE], base, 1, e)

\* ------------------------------------------------------------------------
\* Strings: sequences of characters
\* ------------------------------------------------------------------------

DigitChars == <<"0", "1", "2", "3", "4", "5", "6", "7", "8", "9">>
DigitChar(k) == DigitChars[k + 1]

\* the characters of a string of decimal digits given as numbers
Str(ds) == Tup([i \in 1..Len(ds) |-> DigitChar(ds[i])])

\* decimal digits of x, most significant first (none for 0)
DecDigitsStep(v) ==
    IF WIsZero(v.x) THEN v
    ELSE LET qr == WDivSmall(v.x, 10)
         IN  [x |-> qr.quot, ds |-> <<qr.rem>> \o v.ds]

\* a u64 has at most 20 decimal digits
RECURSIVE DecDigitsSteps(_, _)
DecDigitsSteps(v, n) ==
    IF v # v \/ n = 0 THEN v
    ELSE IF n = 1 THEN DecDigitsStep(v)
    ELSE DecDigitsSteps(DecDigitsSteps(v, n \div 2), n - (n \div 2))

DecDigits(x) == DecDigitsSteps([x |-> x, ds |-> <<>>], 20).ds

\* Display for u64
to_string(x) == IF WIsZero(x) THEN <<"0">> ELSE Str(DecDigits(x))

\* format!("{:01$}", x, width): zero flag, minimum width `width`; a longer
\* number is not cut
FormatNoPad(x, width) == to_string(x)

FormatPadded(x, width) ==
    LET str == to_string(x)
    IN  IF Len(str) >= width THEN str
        ELSE Tup([i \in 1..(width - Len(str)) |-> "0"]) \o str

\* ------------------------------------------------------------------------
\* src/src/lib.rs
\* ------------------------------------------------------------------------

DEFAULT_STEP == 30
DEFAULT_DIGITS == 8

\* to_bytes (lines 133-138): bytes[7 - i] = (mask & (n >> (i * 8))) as u8
to_bytes_bitshift(n) ==
    LET mask == U64(255)
    IN  Tup([p \in 1..8 |-> LET i == 8 - p IN AsU8(WAnd(mask, WShr(n, i)))])

to_bytes_le(n) ==
    LET mask == U64(255)
    IN  Tup([p \in 1..8 |-> LET i == p - 1 IN AsU8(WAnd(mask, WShr(n, i * 8)))])

to_bytes(n) ==
    LET mask == U64(255)
    IN  Tup([p \in 1..8 |-> LET i == 8 - p IN AsU8(WAnd(mask, WShr(n, i * 8)))])

\* time / step as the message counter (line 119)
CounterNoDiv(t, s) == IF WIsZero(s) THEN Panic("attempt to divide by zero") ELSE Ok(t)

Counter(t, s) == Div(t, s)

\* Mac::new_from_slice (line 118): Hmac takes a key of any length, so the
\* Result is always Ok
new_from_slice_nonempty(H, key) ==
    IF Len(key) = 0 THEN Panic("called Result::unwrap on an Err value: InvalidLength")
    ELSE Ok([key |-> key, buf |-> <<>>])

new_from_slice(H, key) == Ok([key |-> key, buf |-> <<>>])

\* Update::update (line 119)
update(m, data) == [m EXCEPT !.buf = @ \o data]

\* Mac::finalize().into_bytes() (line 120).  The digests of the calls the
\* specifications below make are computed once and looked up; any other is
\* computed on the spot.
RfcSecret(H) == Tup([i \in 1..OutputSize(H) |-> 48 + (i % 10)])

Secrets(H) == {<<>>, RfcSecret(H)}

Times == {U64(0), U64(29), U64(30), U64(59), U64Dec(<<2, 0, 0, 0, 0, 0, 0, 0, 0, 0, 0>>)}

Steps == {U64(0), U64(30), U64(60)}

MaxDigits == 20

Digits == (0..MaxDigits) \cup {64}

MemoDomain ==
    UNION {{<<H, key, to_bytes(Counter(t, s).val)>> :
                key \in Secrets(H), t \in Times, s \in Steps \ {U64(0)}} : H \in Algs}

HmacMemo ==
    {[H |-> e[1], key |-> e[2], m |-> e[3], digest |-> HmacCompute(e[1], e[2], e[3])] :
        e \in MemoDomain}

Hmac(H, key, m) ==
    IF <<H, key, m>> \in MemoDomain
    THEN (CHOOSE e \in HmacMemo : e.H = H /\ e.key = key /\ e.m = m).digest
    ELSE HmacCompute(H, key, m)

finalize(H, m) == Hmac(H, m.key, m.buf)

\* (hash.last().unwrap() & 0xf) as usize (line 123)
DynOffsetWide(hsh) == And8(hsh[Len(hsh)], 31)

DynOffset(hsh) == And8(hsh[Len(hsh)], 15)

\* lines 124-127; hash[i] of the code is hsh[i + 1] here
DynBinaryUnmasked(hsh, off) ==
    WOr(WOr(WOr(WShl(U64(hsh[off + 1]), 24),
                WShl(U64(hsh[off + 2]), 16)),
            WShl(U64(hsh[off + 3]), 8)),
        U64(hsh[off + 4]))

DynBinary(hsh, off) ==
    WOr(WOr(WOr(WShl(U64(And8(hsh[off + 1], 127)), 24),
                WShl(U64(hsh[off + 2]), 16)),
            WShl(U64(hsh[off + 3]), 8)),
        U64(hsh[off + 4]))

\* lines 123-127 with the slice's bounds checks
Truncation(hsh) ==
    LET off == DynOffset(hsh)
    IN  IF off + 3 >= Len(hsh) THEN Panic("index out of bounds")
        ELSE Ok([offset |-> off, binary |-> DynBinary(hsh, off)])

\* format!("{:01$}", binary % (10_u64.pow(digits)), digits as usize) (line 129)
FormatCode(oc, bin, d) ==
    LET p == Pow(10, d)
    IN  IF oc /\ p.overflow THEN Panic("attempt to multiply with overflow")
        ELSE LET r == Rem(bin, p.val)
             IN  IF r.panicked THEN r ELSE Ok(FormatPadded(r.val, d))

\* totp_custom (lines 105-130) as a function of its arguments and the build
totp_custom(oc, H, s, d, key, t) ==
    LET k == new_from_slice(H, key)
        c == Counter(t, s)
    IN  IF k.panicked THEN k
        ELSE IF c.panicked THEN c
        ELSE LET tr == Truncation(finalize(H, update(k.val, to_bytes(c.val))))
             IN  IF tr.panicked THEN tr
                 ELSE FormatCode(oc, tr.val.binary, d)

\* totp (lines 74-87)
totp(oc, H, key, t) == totp_custom(oc, H, U64(DEFAULT_STEP), DEFAULT_DIGITS, key, t)

\* ------------------------------------------------------------------------
\* The call as a state machine
\* ------------------------------------------------------------------------

NoMac == [key |-> <<>>, buf |-> <<>>]

\* a call of entry point f; step and digits of a totp call are assigned by Totp
Call(f, oc, H, s, d, key, t) ==
    /\ pc = IF f = "totp" THEN "totp" ELSE "new_from_slice"
    /\ fn = f
    /\ overflow_checks = oc
    /\ alg = H
    /\ step = s
    /\ digits = d
    /\ secret = key
    /\ time = t
    /\ mac = NoMac
    /\ hash = <<>>
    /\ offset = 0
    /\ binary = U64(0)
    /\ result = <<>>
    /\ panic = ""

Init ==
    \E oc \in BOOLEAN, H \in Algs, t \in Times :
        \E key \in Secrets(H) :
            \/ Call("totp", oc, H, U64(0), 0, key, t)
            \/ \E s \in Steps, d \in Digits : Call("totp_custom", oc, H, s, d, key, t)

Panicked(m) == pc' = "panicked" /\ panic' = m

\* line 86: totp passes the defaults on
Totp ==
    /\ pc = "totp"
    /\ pc' = "new_from_slice"
    /\ step' = U64(DEFAULT_STEP)
    /\ digits' = DEFAULT_DIGITS
    /\ UNCHANGED <<fn, overflow_checks, alg, secret, time, mac, hash, offset, binary,
                   result, panic>>

\* line 118
NewFromSlice ==
    /\ pc = "new_from_slice"
    /\ LET k == new_from_slice(alg, secret)
       IN  IF k.panicked THEN Panicked(k.msg) /\ UNCHANGED mac
           ELSE pc' = "update" /\ mac' = k.val /\ UNCHANGED panic
    /\ UNCHANGED <<fn, overflow_checks, alg, step, digits, secret, time, hash, offset,
                   binary, result>>

\* line 119
Update ==
    /\ pc = "update"
    /\ LET c == Counter(time, step)
       IN  IF c.panicked THEN Panicked(c.msg) /\ UNCHANGED mac
           ELSE pc' = "finalize" /\ mac' = update(mac, to_bytes(c.val)) /\ UNCHANGED panic
    /\ UNCHANGED <<fn, overflow_checks, alg, step, digits, secret, time, hash, offset,
                   binary, result>>

\* line 120
Finalize ==
    /\ pc = "finalize"
    /\ pc' = "truncate"
    /\ hash' = finalize(alg, mac)
    /\ UNCHANGED <<fn, overflow_checks, alg, step, digits, secret, time, mac, offset,
                   binary, result, panic>>

\* lines 123-127
Truncate ==
    /\ pc = "truncate"
    /\ LET tr == Truncation(hash)
       IN  IF tr.panicked THEN Panicked(tr.msg) /\ UNCHANGED <<offset, binary>>
           ELSE /\ pc' = "format"
                /\ offset' = tr.val.offset
                /\ binary' = tr.val.binary
                /\ UNCHANGED panic
    /\ UNCHANGED <<fn, overflow_checks, alg, step, digits, secret, time, mac, hash,
                   result>>

\* line 129
Format ==
    /\ pc = "format"
    /\ LET r == FormatCode(overflow_checks, binary, digits)
       IN  IF r.panicked THEN Panicked(r.msg) /\ UNCHANGED result
           ELSE pc' = "returned" /\ result' = r.val /\ UNCHANGED panic
    /\ UNCHANGED <<fn, overflow_checks, alg, step, digits, secret, time, mac, hash,
                   offset, binary>>

Next == Totp \/ NewFromSlice \/ Update \/ Finalize \/ Truncate \/ Format

Spec == Init /\ [][Next]_vars

\* ------------------------------------------------------------------------
\* The known answers of the tests and doc tests
\* ------------------------------------------------------------------------

Known(f, H, s, d, key, t, code) ==
    [fn |-> f, H |-> H, step |-> s, digits |-> d, key |-> key, time |-> t,
     code |-> Str(code)]

RfcTimes ==
    <<U64(59), U64(1111111109), U64(1111111111), U64(1234567890), U64(2000000000),
      U64Dec(<<2, 0, 0, 0, 0, 0, 0, 0, 0, 0, 0>>)>>

\* totp1_tests, totp256_tests, totp512_tests (lines 170-225)
RfcCodes(H) ==
    CASE H = "Sha1" ->
            << <<9, 4, 2, 8, 7, 0, 8, 2>>, <<0, 7, 0, 8, 1, 8, 0, 4>>,
               <<1, 4, 0, 5, 0, 4, 7, 1>>, <<8, 9, 0, 0, 5, 9, 2, 4>>,
               <<6, 9, 2, 7, 9, 0, 3, 7>>, <<6, 5, 3, 5, 3, 1, 3, 0>> >>
      [] H = "Sha256" ->
            << <<4, 6, 1, 1, 9, 2, 4, 6>>, <<6, 8, 0, 8, 4, 7, 7, 4>>,
               <<6, 7, 0, 6, 2, 6, 7, 4>>, <<9, 1, 8, 1, 9, 4, 2, 4>>,
               <<9, 0, 6, 9, 8, 8, 2, 5>>, <<7, 7, 7, 3, 7, 7, 0, 6>> >>
      [] H = "Sha512" ->
            << <<9, 0, 6, 9, 3, 9, 3, 6>>, <<2, 5, 0, 9, 1, 2, 0, 1>>,
               <<9, 9, 9, 4, 3, 3, 2, 6>>, <<9, 3, 4, 4, 1, 1, 1, 6>>,
               <<3, 8, 6, 1, 8, 9, 0, 1>>, <<4, 7, 8, 6, 3, 8, 2, 6>> >>

Rfc6238Vectors ==
    {Known("totp", H, U64(DEFAULT_STEP), DEFAULT_DIGITS, RfcSecret(H), RfcTimes[i],
           RfcCodes(H)[i]) : H \in Algs, i \in 1..6}

\* variable_length (lines 157-168) and the doc test of totp (line 72), whose
\* secret is b"secret"
OtherKnown ==
    {Known("totp_custom", "Sha256", U64(DEFAULT_STEP), 10, RfcSecret("Sha256"), U64(100),
           <<2, 1, 0, 2, 9, 7, 5, 8, 3, 2>>),
     Known("totp_custom", "Sha256", U64(DEFAULT_STEP), 6, RfcSecret("Sha256"), U64(100),
           <<9, 7, 5, 8, 3, 2>>),
     Known("totp", "Sha512", U64(DEFAULT_STEP), DEFAULT_DIGITS,
           <<115, 101, 99, 114, 101, 116>>, U64(1234567890), <<7, 1, 7, 8, 8, 6, 5, 8>>)}

KnownAnswers == Rfc6238Vectors \cup OtherKnown

InitKAT ==
    \E k \in KnownAnswers, oc \in BOOLEAN :
        IF k.fn = "totp" THEN Call("totp", oc, k.H, U64(0), 0, k.key, k.time)
        ELSE Call("totp_custom", oc, k.H, k.step, k.digits, k.key, k.time)

SpecKAT == InitKAT /\ [][Next]_vars

\* ------------------------------------------------------------------------
\* The truncation (lines 123-127) on any digest
\* ------------------------------------------------------------------------

\* samples of the window's first byte (the masked one), of its later bytes and
\* of the last byte's high nibble
FirstByteSamples == {0, 127, 128, 255}

LaterByteSamples == {0, 255}

HighNibbles == {0, 240}

\* a digest of n bytes whose last byte is hi + off and whose bytes at
\* off .. off + 3 (those inside it) are w; every other byte is 0xAA
SampleDigest(n, off, w, hi) ==
    Tup([i \in 1..n |->
            IF i = n THEN hi + off
            ELSE IF i - 1 \in off..(off + 3) THEN w[i - off]
            ELSE 170])

Digests(n) ==
    {SampleDigest(n, off, w, hi) :
        off \in 0..15,
        w \in {<<b0, b1, b2, b3>> : b0 \in FirstByteSamples, b1 \in LaterByteSamples,
                                    b2 \in LaterByteSamples, b3 \in LaterByteSamples},
        hi \in HighNibbles}

\* a call that has reached line 123 with digest hsh
AtTruncate(H, hsh) ==
    /\ pc = "truncate"
    /\ fn = "totp_custom"
    /\ overflow_checks = FALSE
    /\ alg = H
    /\ step = U64(DEFAULT_STEP)
    /\ digits = DEFAULT_DIGITS
    /\ secret = <<115, 101, 99, 114, 101, 116>>
    /\ time = U64(59)
    /\ mac = update(new_from_slice(H, secret).val, to_bytes(Counter(time, step).val))
    /\ hash = hsh
    /\ offset = 0
    /\ binary = U64(0)
    /\ result = <<>>
    /\ panic = ""

InitTrunc == \E H \in AnyAlgs : \E hsh \in Digests(OutputSize(H)) : AtTruncate(H, hsh)

NextTrunc == Truncate

SpecTrunc == InitTrunc /\ [][NextTrunc]_vars

\* ------------------------------------------------------------------------
\* The counter and its bytes (line 119) on any timestamp
\* ------------------------------------------------------------------------

LimbSamples == {0, 1, 255, 256, 65535}

TimeSamples ==
    {<<a, b, c, d>> : a \in LimbSamples, b \in LimbSamples, c \in LimbSamples,
                      d \in LimbSamples}
    \cup Times \cup {RfcTimes[i] : i \in 1..6}

StepSamples == {U64(1), U64(30), U64(60), U64(32767)}

\* a call that has reached line 119
AtUpdate(t, s) ==
    /\ pc = "update"
    /\ fn = "totp_custom"
    /\ overflow_checks = FALSE
    /\ alg = "Sha1"
    /\ step = s
    /\ digits = DEFAULT_DIGITS
    /\ secret = RfcSecret("Sha1")
    /\ time = t
    /\ mac = new_from_slice(alg, secret).val
    /\ hash = <<>>
    /\ offset = 0
    /\ binary = U64(0)
    /\ result = <<>>
    /\ panic = ""

InitBytes == \E t \in TimeSamples, s \in StepSamples : AtUpdate(t, s)

NextBytes == Update

SpecBytes == InitBytes /\ [][NextBytes]_vars

\* ------------------------------------------------------------------------
\* Properties
\* ------------------------------------------------------------------------

Terminal == {"returned", "panicked"}

Suffix(str, n) == SubSeq(str, Len(str) - n + 1, Len(str))

IsDigitString(str) == \A i \in 1..Len(str) : \E k \in 0..9 : str[i] = DigitChar(k)

\* C1: every RFC 6238 Appendix B vector (SHA-1, SHA-256, SHA-512; step 30,
\* 8 digits) run through totp never panics and returns the code the tests
\* list.
C1_RfcVectors ==
    \A k \in Rfc6238Vectors :
        (fn = k.fn /\ alg = k.H /\ secret = k.key /\ time = k.time)
            => /\ pc # "panicked"
               /\ pc = "returned" => result = k.code

C1_Witness ==
    /\ pc = "returned" /\ fn = "totp" /\ alg = "Sha512" /\ time = RfcTimes[6]
    /\ secret = RfcSecret("Sha512")
    /\ result = Str(<<4, 7, 8, 6, 3, 8, 2, 6>>)

\* C2: with digits in 1..10, a non-empty secret and step > 0 the call does not
\* panic and the string returned has exactly `digits` characters, all of them
\* '0'..'9'; totp returns exactly 8 characters.
C2_Width ==
    /\ (fn = "totp_custom" /\ digits \in 1..10 /\ secret # <<>> /\ step # U64(0))
        => /\ pc # "panicked"
           /\ pc = "returned" => Len(result) = digits /\ IsDigitString(result)
    /\ (fn = "totp" /\ secret # <<>>)
        => /\ pc # "panicked"
           /\ pc = "returned" => Len(result) = 8 /\ IsDigitString(result)

C2_Witness ==
    /\ pc = "returned" /\ fn = "totp_custom" /\ secret # <<>> /\ digits = 10
    /\ Len(result) = 10 /\ result[1] = "0"

\* C3: a returned code is the code of every other timestamp of the same
\* window (equal time / step), all other arguments equal.
C3_SameWindow ==
    pc = "returned"
        => \A t2 \in Times :
             (t2 # time /\ WDivRem(t2, step).quot = WDivRem(time, step).quot)
                => totp_custom(overflow_checks, alg, step, digits, secret, t2) = Ok(result)

C3_Witness ==
    /\ pc = "returned" /\ fn = "totp_custom" /\ time = U64(59) /\ step = U64(30)
    /\ secret # <<>>
    /\ totp_custom(overflow_checks, alg, step, digits, secret, U64(30)) = Ok(result)
    /\ totp_custom(overflow_checks, alg, step, digits, secret, U64(29)) # Ok(result)

\* C4: for d1 < digits <= 10 the d1-digit code of the same call is the last d1
\* characters of the returned code.
C4_Suffix ==
    (pc = "returned" /\ digits \in 1..10)
        => \A d1 \in 1..(digits - 1) :
             totp_custom(overflow_checks, alg, step, d1, secret, time)
                = Ok(Suffix(result, d1))

C4_Witness ==
    /\ pc = "returned" /\ digits = 10 /\ secret # <<>> /\ result[5] # "0"
    /\ totp_custom(overflow_checks, alg, step, 6, secret, time) = Ok(Suffix(result, 6))

\* C5: the message fed to the HMAC is 8 bytes b with
\* sum of b[i] * 256^(7 - i) = floor(time / step), most significant byte first;
\* the byte arrays of the tests come out; another counter gives other bytes.
C5_BigEndian ==
    pc = "finalize"
        => LET b == mac.buf
               n == <<b[1] * 256 + b[2], b[3] * 256 + b[4],
                      b[5] * 256 + b[6], b[7] * 256 + b[8]>>
               prod == WMulSmall(n, WToNat(step))
           IN  /\ Len(b) = 8
               /\ \A i \in 1..8 : b[i] \in 0..255
               /\ prod.carry = 0
               /\ ~WLt(time, prod.val)
               /\ WLt(WSub(time, prod.val), step)
               /\ (time = U64(59) /\ step = U64(30)) => b = <<0, 0, 0, 0, 0, 0, 0, 1>>
               /\ (time = U64(1111111109) /\ step = U64(30))
                    => b = <<0, 0, 0, 0, 2, 53, 35, 236>>
               /\ (time = RfcTimes[6] /\ step = U64(30))
                    => b = <<0, 0, 0, 0, 39, 188, 134, 170>>
               /\ \A t2 \in Times :
                    WDivRem(t2, step).quot # n => to_bytes(WDivRem(t2, step).quot) # b

C5_Witness ==
    /\ pc = "finalize" /\ time = U64(1111111109) /\ step = U64(30)
    /\ mac.buf = <<0, 0, 0, 0, 2, 53, 35, 236>>

\* C6: a totp_custom call with step = 0 never gets past line 119: it feeds no
\* counter to the HMAC, computes no digest, returns no string, and its only
\* panic is the division by zero.
C6_ZeroStepFailsFast ==
    (fn = "totp_custom" /\ step = U64(0))
        => /\ pc \in {"new_from_slice", "update", "panicked"}
           /\ mac.buf = <<>> /\ hash = <<>> /\ result = <<>>
           /\ pc = "panicked" => panic = "attempt to divide by zero"

C6_Witness ==
    /\ fn = "totp_custom" /\ step = U64(0) /\ pc = "panicked"
    /\ panic = "attempt to divide by zero" /\ secret # <<>>

\* C7 as claimed: no code is returned for an empty secret.
C7_EmptySecretRejected == secret = <<>> => pc # "returned"

\* C7 as amended: an empty secret is accepted as HMAC key.  The call never
\* panics with a key-construction error, the Hmac is keyed with the empty key,
\* and a returned code has `digits` characters (digits in 1..19); totp with
\* SHA-1 at time 59 returns "30812658", the code of HMAC-SHA1 under the empty
\* key (RFC 2104 zero-pads it).
C7_EmptySecretAccepted ==
    secret = <<>>
        => /\ panic # "called Result::unwrap on an Err value: InvalidLength"
           /\ pc \in {"update", "finalize"} => mac.key = <<>>
           /\ (pc = "returned" /\ digits \in 1..19) => Len(result) = digits
           /\ (pc = "returned" /\ fn = "totp" /\ alg = "Sha1" /\ time = U64(59))
                => result = Str(<<3, 0, 8, 1, 2, 6, 5, 8>>)

C7_Witness ==
    /\ secret = <<>> /\ pc = "returned" /\ fn = "totp" /\ alg = "Sha1" /\ time = U64(59)
    /\ result = Str(<<3, 0, 8, 1, 2, 6, 5, 8>>)

\* C8 as claimed: a finished totp_custom call with digits >= 10 (and step > 0)
\* has returned the truncated value itself, zero-padded to `digits` characters.
C8_LargeDigitsReturn ==
    (fn = "totp_custom" /\ digits >= 10 /\ step # U64(0) /\ pc \in Terminal)
        => pc = "returned" /\ result = FormatPadded(binary, digits)

\* C8, what the code does: with digits in 10..19 the call returns the
\* truncated value zero-padded; from 20 digits on 10^digits overflows u64, a
\* panic in a build with overflow checks; without them the power wraps, to a
\* value above 2^31 up to 63 digits (the value is returned unchanged) and to 0
\* from 64 digits on, where the remainder by zero panics.
C8_Overflow ==
    (fn = "totp_custom" /\ digits >= 10 /\ step # U64(0) /\ pc \in Terminal)
        => IF digits <= 19 \/ (~overflow_checks /\ digits <= 63)
           THEN pc = "returned" /\ result = FormatPadded(binary, digits)
                /\ Len(result) = digits
           ELSE /\ pc = "panicked"
                /\ panic = IF overflow_checks THEN "attempt to multiply with overflow"
                           ELSE "attempt to calculate the remainder with a divisor of zero"

C8_Witness ==
    /\ fn = "totp_custom" /\ digits = 64 /\ ~overflow_checks /\ secret # <<>>
    /\ step = U64(30) /\ pc = "panicked"
    /\ panic = "attempt to calculate the remainder with a divisor of zero"

\* C9: offset is the low nibble of the last digest byte, and binary is
\* (hash[offset] & 0x7f) * 2^24 + hash[offset+1] * 2^16 + hash[offset+2] * 2^8
\* + hash[offset+3], the later bytes unmasked, hence below 2^31.
C9_Truncation ==
    pc = "format"
        => /\ offset = hash[Len(hash)] % 16
           /\ WFitsNat(binary)
           /\ WToNat(binary) = (hash[offset + 1] % 128) * 16777216
                               + hash[offset + 2] * 65536
                               + hash[offset + 3] * 256
                               + hash[offset + 4]

C9_Witness ==
    /\ pc = "format" /\ hash[offset + 1] = 255 /\ hash[Len(hash)] >= 240
    /\ binary = <<0, 0, 32767, 65535>>

\* C10: on a digest of at least 20 bytes the truncation never panics, offset
\* is in 0..15 and the indices offset .. offset + 3 are inside the digest.
C10_InBounds ==
    Len(hash) >= 20
        => /\ pc # "panicked"
           /\ pc = "format" => offset \in 0..15 /\ offset + 3 <= Len(hash) - 1

C10_Witness ==
    /\ pc = "format" /\ Len(hash) = 20 /\ offset = 15 /\ hash[20] = 255

====
